---- MODULE Spec2Model ----
(***************************************************************************)
(* A model of the HydraDashboard gRPC-Web client:                          *)
(*   - HydraGrpcWebClient.grpcCall, the unary call executor, and the       *)
(*     mutating client wrappers and mutation hooks built on it             *)
(*     (src/src/store/index.ts, src/src/hooks/useRealHydraData.ts);        *)
(*   - subscribeToNodeEvents / subscribeToClientEvents, the stream         *)
(*     subscriber, and the hooks useNodeEventStream / useClientEventStream *)
(*     that own a subscription and invalidate the query cache.             *)
(*                                                                         *)
(* Bytes are small naturals.  A response body and a stream chunk are       *)
(* sequences of bytes.  The specifications share the variables:           *)
(*   CallSpec   one call of a mutation hook (unary calls);                 *)
(*   ExecSpec   one grpcCall of any call descriptor of the client;         *)
(*   FanSpec    one fan-out read over the configured networks, and the     *)
(*              connection-status probe built on getBalances;              *)
(*   FrameSpec  a payload sent as a unary or as a subscribe request, the   *)
(*              frame deframed as a response;                              *)
(*   Spec       one stream hook instance, its effects, streams and timers; *)
(*   FairSpec   Spec with the fairness of the JavaScript event loop;       *)
(*   RetrySpec  Spec without events, with more failures in a row.          *)
(***************************************************************************)
EXTENDS Naturals, Sequences, FiniteSets, TLC

VARIABLES
  lastCall,     \* the mutation hook call: descriptor, response, outcome
  sent,         \* number of requests grpcCall has put on the wire
  stale,        \* the cached queries currently marked stale
  invalidated,  \* the keys the last handler passed to invalidateQueries
  timers,       \* pending setTimeout callbacks, with the time left to each
  kind,         \* "node" (useNodeEventStream) or "client" (useClientEventStream)
  network,      \* the hook's network argument: "none" (undefined) or a network
  alive,        \* the component that uses the stream hook is mounted
  effects,      \* the effect closures created so far, oldest first
  unsubState,   \* the hook's `unsubscribe` state: 0 (null) or a stream number
  isConnected,  \* the hook's `isConnected` state
  lastEvent,    \* the hook's `lastEvent` state: <<>> for null, else << the variants of the event >>
  streams,      \* the subscribe calls made so far, oldest first
  fan,          \* the fan-out read in progress: networks, calls, aggregate
  codec         \* a payload, the frame built from it and its deframing

vars == <<lastCall, sent, stale, invalidated, timers, kind, network, alive,
          effects, unsubState, isConnected, lastEvent, streams, fan, codec>>

readVars == <<fan, codec>>

callVars == <<lastCall, sent>>

hookVars == <<kind, network, alive, effects, unsubState, isConnected,
              lastEvent, streams>>

(***************************************************************************)
(* Bounds of the model.                                                    *)
(***************************************************************************)
\* longest message payload (bytes after the 5-byte frame header) of a unary
\* response body
MaxPayload == 2

(***************************************************************************)
(* Bytes.  Text found by String.includes / String.match in a response body *)
(* is modelled by one byte, the first character of the text, standing for  *)
(* the whole substring.                                                    *)
(***************************************************************************)
\* 'g' (0x67), standing for the text "grpc-status:0"
MARKER == 103

\* a tag byte of field 1, wire type 2 (length-delimited)
TAG1 == 10

\* a tag byte of field 2, wire type 2
TAG2 == 18

\* a tag byte of field 3, wire type 2
TAG3 == 26

\* a tag byte of field 4, wire type 2
TAG4 == 34

\* a tag byte of field 1, wire type 7: no protobuf wire type
BADTAG == 15

\* the gRPC-Web frame header is 5 bytes: compression flag + 4 length bytes
HeaderLen == 5

WireType(t) == t % 8

FieldNo(t) == t \div 8

Throw == [ok |-> FALSE, fields |-> <<>>]

(***************************************************************************)
(* Message.decode(new BinaryReader(bytes)) of the generated protobuf code: *)
(* reads tag after tag; tag 0 or an end-group tag ends the message; a      *)
(* length-delimited field is read with its length byte; other fields are   *)
(* skipped by wire type; reading past the end and wire types 3, 6 and 7    *)
(* throw.  The result lists the numbers of the length-delimited fields.    *)
(***************************************************************************)
RECURSIVE ProtoDecodeFrom(_, _)
ProtoDecodeFrom(b, acc) ==
  IF b = <<>> THEN [ok |-> TRUE, fields |-> acc]
  ELSE LET t == Head(b)
           r == Tail(b)
       IN  IF t = 0 \/ WireType(t) = 4 THEN [ok |-> TRUE, fields |-> acc]
           ELSE IF WireType(t) = 2 THEN
                  IF r = <<>> THEN Throw
                  ELSE IF Head(r) > Len(r) - 1 THEN Throw
                  ELSE ProtoDecodeFrom(SubSeq(r, Head(r) + 2, Len(r)),
                                       Append(acc, FieldNo(t)))
           ELSE IF WireType(t) = 0 THEN
                  IF r = <<>> THEN Throw ELSE ProtoDecodeFrom(Tail(r), acc)
           ELSE IF WireType(t) = 1 THEN
                  IF Len(r) < 8 THEN Throw
                  ELSE ProtoDecodeFrom(SubSeq(r, 9, Len(r)), acc)
           ELSE IF WireType(t) = 5 THEN
                  IF Len(r) < 4 THEN Throw
                  ELSE ProtoDecodeFrom(SubSeq(r, 5, Len(r)), acc)
           ELSE Throw

ProtoDecode(b) == ProtoDecodeFrom(b, <<>>)

\* a view that starts one byte early
ViewFrom4(buf) ==
  IF Len(buf) < HeaderLen - 1 THEN [ok |-> FALSE, bytes |-> <<>>]
  ELSE [ok |-> TRUE, bytes |-> SubSeq(buf, HeaderLen, Len(buf))]

(***************************************************************************)
(* new Uint8Array(responseData, 5) on an ArrayBuffer: a view from byte 5,  *)
(* a RangeError when the buffer is shorter than 5 bytes.                   *)
(***************************************************************************)
ViewFrom5(buf) ==
  IF Len(buf) < HeaderLen THEN [ok |-> FALSE, bytes |-> <<>>]
  ELSE [ok |-> TRUE, bytes |-> SubSeq(buf, HeaderLen + 1, Len(buf))]

\* the try { new Uint8Array(responseData, 5); X.decode(reader) } blocks
DeframeAndDecode(buf) ==
  IF ViewFrom5(buf).ok THEN ProtoDecode(ViewFrom5(buf).bytes) ELSE Throw

\* responseText.includes('grpc-status:0')
HasMarker(body) == \E i \in 1..Len(body) : body[i] = MARKER


\* '0' (0x30), standing for a text matching /0x[0-9a-f]{64}/i
ASSET == 48

\* '1' (0x31), standing for a text matching /\d+\.\d+/
AMOUNT == 49

\* responseText.match(assetIdPattern)
HasAsset(body) == \E i \in 1..Len(body) : body[i] = ASSET

\* (responseText.match(/\d+\.\d+/g) || []).length
AmountCount(body) == Cardinality({i \in 1..Len(body) : body[i] = AMOUNT})

(***************************************************************************)
(* Call descriptors: (servicePath, method).                                *)
(***************************************************************************)
Desc(s, m) == [service |-> s, method |-> m]

AppService == "hydra_app.AppService"

WalletService == "hydra_app.WalletService"

NodeService == "hydra_app.NodeService"

RentalService == "hydra_app.RentalService"

OrderbookService == "hydra_app.OrderbookService"

BlockchainService == "hydra_app.BlockchainService"

ClientService == "hydra_app.ClientService"

PricingService == "hydra_app.PricingService"

AssetService == "hydra_app.AssetService"

WatchOnlyNodeService == "hydra_app.WatchOnlyNodeService"

\* the descriptors of the mutating client operations
MutatingDescriptors ==
  { Desc(NodeService, "ConnectToPeer"), Desc(NodeService, "OpenChannel"),
    Desc(NodeService, "DepositChannel"), Desc(NodeService, "WithdrawChannel"),
    Desc(NodeService, "CloseChannel"), Desc(NodeService, "ForceCloseChannel"),
    Desc(RentalService, "RentChannel"), Desc(OrderbookService, "InitMarket") }

(***************************************************************************)
(* Call results: a value (decoded message, or a default the client makes   *)
(* up) or the GrpcCallError thrown by the catch block of grpcCall.         *)
(***************************************************************************)
NoValue == [tag |-> "none", fields |-> <<>>]

Decoded(fs) == [tag |-> "decoded", fields |-> fs]

Default(name) == [tag |-> name, fields |-> <<>>]

Ok(v) == [kind |-> "ok", value |-> v, name |-> "", cause |-> "", http |-> 0,
          status |-> ""]

\* lines 692-753: every error thrown in the try block is wrapped in an Error
\* named GrpcCallError whose `cause` is the original error.  http and status
\* are the HTTP status and the grpc-status the text of the original error
\* holds (0 and "null" when it holds none), body the bytes of the response
\* body it holds: none, the body is only written to the console (line 398).
GrpcCallError(cause, http, status) ==
  [kind |-> "err", value |-> NoValue, name |-> "GrpcCallError",
   cause |-> cause, http |-> http, status |-> status, body |-> <<>>]

\* methods of the status-absent branch that fall back to text parsing when
\* the structured decode throws
DecodeOrFallThrough ==
  { Desc(AppService, "GetNetworks"), Desc(BlockchainService, "GetFeeEstimates"),
    Desc(WalletService, "GetBalances"), Desc(PricingService, "GetAssetFiatPrice"),
    Desc(AssetService, "GetAssets"), Desc(WalletService, "GetTransactions"),
    Desc(WatchOnlyNodeService, "GetChannels"),
    Desc(NodeService, "GetConnectedPeers"),
    Desc(NodeService, "EstimateOpenChannelFee"),
    Desc(NodeService, "OpenChannel") }

RentalDecoded ==
  {"GetRentalNodeInfo", "GetRentableAssetInfo", "EstimateRentChannelFee",
   "RentChannel"}

MarketsMethods == {"GetMarketsInfo", "GetInitializedMarkets"}

Pending == [done |-> FALSE, res |-> Ok(NoValue)]

Done(r) == [done |-> TRUE, res |-> r]

\* lines 108-394: grpc-status absent, HTTP 200: the structured decoders
StatusAbsentDecode(d, resp) ==
  LET dec == DeframeAndDecode(resp.body)
  IN  IF d.service = OrderbookService /\ d.method \in MarketsMethods
        THEN IF dec.ok THEN Done(Ok(Decoded(dec.fields)))
             ELSE Done(Ok(Default("markets_empty")))
      ELSE IF d.service = RentalService
        THEN IF d.method \in RentalDecoded
               THEN IF dec.ok THEN Done(Ok(Decoded(dec.fields)))
                    ELSE Done(GrpcCallError("Failed to decode", 0, "null"))
             ELSE IF ~ViewFrom5(resp.body).ok
               THEN Done(GrpcCallError("Failed to decode", 0, "null"))
             \* the body was read at line 144 and is read again at line 183
             ELSE Done(GrpcCallError("body stream already read", 0, "null"))
      ELSE IF d = Desc(ClientService, "GetDepositAddress")
        THEN IF dec.ok THEN Done(Ok(Decoded(dec.fields)))
             ELSE Done(GrpcCallError("Failed to decode", 0, "null"))
      ELSE IF d \in DecodeOrFallThrough /\ dec.ok
        THEN Done(Ok(Decoded(dec.fields)))
      ELSE Pending

\* the text workarounds with the ConnectToPeer workaround not looking for the
\* success marker
StatusAbsentTextNoMarker(d, resp) ==
  IF d = Desc(NodeService, "ConnectToPeer") THEN Done(Ok(Default("empty")))
  ELSE Pending

\* the text workarounds with the GetBalances workaround reporting a balance
\* for every text with the success marker
StatusAbsentTextAnyAsset(d, resp) ==
  IF d = Desc(WalletService, "GetBalances") /\ HasMarker(resp.body)
    THEN Done(Ok(Default("balances_parsed")))
  ELSE Pending

\* lines 404-515: grpc-status absent, HTTP 200: the text workarounds
StatusAbsentText(d, resp) ==
  LET isBalances == d = Desc(WalletService, "GetBalances")
      isInitMarket == d = Desc(OrderbookService, "InitMarket")
      first ==
        IF isBalances \/ isInitMarket
          THEN IF HasMarker(resp.body)
                 THEN IF isInitMarket THEN Done(Ok(Default("initmarket_success")))
                      ELSE IF HasAsset(resp.body) /\ AmountCount(resp.body) >= 2
                        THEN Done(Ok(Default("balances_parsed")))
                      ELSE Done(Ok(Default("balances_empty")))
               ELSE Pending
        ELSE IF d.service = OrderbookService /\ d.method \in MarketsMethods
          THEN Done(Ok(Default("markets_empty")))
        ELSE Pending
  IN  IF first.done THEN first
      ELSE IF d = Desc(NodeService, "ConnectToPeer") /\ HasMarker(resp.body)
        THEN Done(Ok(Default("empty")))
      ELSE IF d = Desc(AppService, "GetNetworks") /\ HasMarker(resp.body)
        THEN Done(Ok(Default("networks_text")))
      ELSE Pending

\* the status-absent branch without its checks of the HTTP status
StatusAbsentAnyHttp(d, resp) ==
  LET dec == StatusAbsentDecode(d, resp)
      txt == StatusAbsentText(d, resp)
  IN  IF dec.done THEN dec.res
      ELSE IF txt.done THEN txt.res
      ELSE GrpcCallError("No gRPC headers", resp.http, "null")

\* lines 102-518: grpc-status header absent
StatusAbsent(d, resp) ==
  LET dec == IF resp.http = 200 THEN StatusAbsentDecode(d, resp) ELSE Pending
      txt == IF resp.http = 200 THEN StatusAbsentText(d, resp) ELSE Pending
  IN  IF dec.done THEN dec.res
      ELSE IF txt.done THEN txt.res
      ELSE GrpcCallError("No gRPC headers", resp.http, "null")

\* the default each decoder of the grpc-status '0' branch returns when the
\* decode throws; "fall" where the catch block falls through to `return {}`
StatusZeroDefault(d) ==
  IF d = Desc(WalletService, "GetTransactions") THEN "transactions_empty"
  ELSE IF d = Desc(WatchOnlyNodeService, "GetChannels") THEN "channels_empty"
  ELSE IF d = Desc(NodeService, "GetConnectedPeers") THEN "nodeIds_empty"
  ELSE IF d = Desc(PricingService, "GetAssetFiatPrice") THEN "price_zero"
  ELSE IF d = Desc(AssetService, "GetAssets") THEN "assets_empty"
  ELSE IF d = Desc(AssetService, "GetAsset") THEN "asset_null"
  ELSE "empty"

\* the grpc-status '0' branch without its GetNetworks decoder
StatusZeroDecodedNoNetworks ==
  { Desc(WalletService, "GetBalances"),
    Desc(BlockchainService, "GetFeeEstimates"),
    Desc(WalletService, "GetTransactions"),
    Desc(WatchOnlyNodeService, "GetChannels"),
    Desc(NodeService, "GetConnectedPeers"),
    Desc(PricingService, "GetAssetFiatPrice"), Desc(AssetService, "GetAssets"),
    Desc(AssetService, "GetAsset") }

\* lines 526-680: the descriptors the grpc-status '0' branch decodes
StatusZeroDecoded ==
  { Desc(AppService, "GetNetworks"), Desc(WalletService, "GetBalances"),
    Desc(BlockchainService, "GetFeeEstimates"),
    Desc(WalletService, "GetTransactions"),
    Desc(WatchOnlyNodeService, "GetChannels"),
    Desc(NodeService, "GetConnectedPeers"),
    Desc(PricingService, "GetAssetFiatPrice"), Desc(AssetService, "GetAssets"),
    Desc(AssetService, "GetAsset") }

\* the grpc-status '0' branch falling back to the success marker in the text
\* when the decode throws, as its log messages announce
StatusZeroOrText(d, resp) ==
  LET dec == DeframeAndDecode(resp.body)
  IN  IF d \in StatusZeroDecoded /\ dec.ok THEN Ok(Decoded(dec.fields))
      ELSE IF HasMarker(resp.body) THEN Ok(Default("text"))
      ELSE Ok(Default(StatusZeroDefault(d)))

\* lines 520-688: grpc-status '0'
StatusZero(d, resp) ==
  LET dec == DeframeAndDecode(resp.body)
  IN  IF d \in StatusZeroDecoded /\ dec.ok THEN Ok(Decoded(dec.fields))
      ELSE Ok(Default(StatusZeroDefault(d)))

(***************************************************************************)
(* grpcCall(servicePath, method, request, requestEncoder) on the response  *)
(* `resp` of its one fetch: resp.net is "fail" when fetch rejects,         *)
(* resp.status is the grpc-status header ("null" when absent).             *)
(***************************************************************************)
\* a catch block that keeps only the diagnosis text of the enhanced error
RemoteErrorNoCause(resp) ==
  GrpcCallError("Unexpected error", 0, "null") @@ [message |-> "null"]

\* lines 688-691 and 745-752: Error(`gRPC error: status=..., message=...`),
\* kept as the `cause` of the GrpcCallError
RemoteError(resp) ==
  GrpcCallError("gRPC error", 0, resp.status) @@
    [message |-> resp.message]

\* a grpcCall that fetches again when its fetch rejects
FetchesAgain(d, resp) == IF resp.net = "fail" THEN 2 ELSE 1

\* lines 86-94: the requests one grpcCall puts on the wire: its one
\* `await fetch`, outside any loop
Fetches(d, resp) == 1

grpcCall(d, resp) ==
  IF resp.net = "fail" THEN GrpcCallError("Failed to fetch", 0, "null")
  ELSE IF resp.status = "null" THEN StatusAbsent(d, resp)
  ELSE IF resp.status = "0" THEN StatusZero(d, resp)
  ELSE RemoteError(resp)


(***************************************************************************)
(* The mutating client operations (connectToPeer, openChannel, ...,        *)
(* initMarket): try { return await this.grpcCall(...) } catch { throw }.   *)
(* rentChannel first validates parseInt(lifetimeSeconds).                  *)
(***************************************************************************)
InvalidLifetime ==
  [kind |-> "err", value |-> NoValue, name |-> "Error",
   cause |-> "Invalid lifetimeSeconds", http |-> 0, status |-> "null"]

\* whether the operation reaches its grpcCall
Reaches(d, lifetimeOk) == d # Desc(RentalService, "RentChannel") \/ lifetimeOk

\* a catch block that logs and returns a default, as the read wrappers do
Swallow(e) == Ok(Default("empty"))

\* the catch block of a mutating wrapper: console.error, then `throw error`
Rethrow(e) == e

ClientOp(d, resp, lifetimeOk) ==
  IF ~Reaches(d, lifetimeOk) THEN Rethrow(InvalidLifetime)
  ELSE IF grpcCall(d, resp).kind = "err" THEN Rethrow(grpcCall(d, resp))
  ELSE grpcCall(d, resp)

(***************************************************************************)
(* The query cache.  invalidateQueries({queryKey: k}) marks stale every    *)
(* cached query whose key starts with k.                                   *)
(***************************************************************************)
CachedQueries ==
  { <<"hydra", "networks">>, <<"hydra", "balances">>, <<"hydra", "channels">>,
    <<"hydra", "peers">>, <<"hydra", "transactions">>, <<"hydra", "markets">>,
    <<"hydra", "grpc-status">>, <<"rentalNodeInfo">>, <<"initializedMarkets">>,
    <<"marketsInfo">> }

IsPrefix(k, q) == Len(k) <= Len(q) /\ SubSeq(q, 1, Len(k)) = k

Matching(k) == {q \in CachedQueries : IsPrefix(k, q)}

RECURSIVE MatchingAll(_)
MatchingAll(ks) ==
  IF ks = <<>> THEN {} ELSE Matching(Head(ks)) \cup MatchingAll(Tail(ks))

\* the keys the onSuccess callback of each mutation hook invalidates at once
OnSuccessKeys(d) ==
  IF d = Desc(NodeService, "ConnectToPeer") THEN << <<"hydra", "peers">> >>
  ELSE IF d = Desc(NodeService, "OpenChannel") THEN << <<"hydra", "channels">> >>
  ELSE IF d = Desc(RentalService, "RentChannel")
    THEN << <<"channels">>, <<"balances">> >>
  ELSE IF d = Desc(OrderbookService, "InitMarket")
    THEN << <<"initializedMarkets">>, <<"marketsInfo">> >>
  ELSE << <<"hydra", "channels">>, <<"hydra", "balances">> >>

\* setTimeout delays of useConnectToPeer.onSuccess, in seconds
SecondaryRefresh == 2

TertiaryRefresh == 5

InvalidateTimer(k, d) ==
  [what |-> "invalidate", eff |-> 0, key |-> k, left |-> d]

\* the timers the onSuccess callback of each mutation hook arms
OnSuccessTimers(d) ==
  IF d = Desc(NodeService, "ConnectToPeer")
    THEN << InvalidateTimer(<<"hydra", "peers">>, SecondaryRefresh),
            InvalidateTimer(<<"hydra", "peers">>, TertiaryRefresh) >>
  ELSE <<>>

(***************************************************************************)
(* Timers: the callback with the least time left runs first; the time it   *)
(* waited has then passed for the others too.                              *)
(***************************************************************************)
IsNext(i) == \A j \in 1..Len(timers) : timers[i].left <= timers[j].left

Remove(seq, i) == SubSeq(seq, 1, i - 1) \o SubSeq(seq, i + 1, Len(seq))

AfterFiring(i) ==
  LET rest == Remove(timers, i)
  IN  [j \in 1..Len(rest) |->
         [rest[j] EXCEPT !.left = rest[j].left - timers[i].left]]

(***************************************************************************)
(* Responses of the server to one unary call.                              *)
(***************************************************************************)
RECURSIVE SeqsUpTo(_, _)
SeqsUpTo(S, n) ==
  IF n = 0 THEN {<<>>}
  ELSE SeqsUpTo(S, n - 1) \cup
       {Append(q, x) : q \in {p \in SeqsUpTo(S, n - 1) : Len(p) = n - 1}, x \in S}

Zeros(n) == [i \in 1..n |-> 0]

\* a frame as the server builds it: flag 0, 4-byte big-endian length, payload
Frame(p) == <<0, 0, 0, 0, Len(p)>> \o p

PayloadBytes == {0, TAG1, BADTAG, MARKER}

Bodies ==
  {Zeros(n) : n \in 0..(HeaderLen - 1)} \cup
  {Frame(p) : p \in SeqsUpTo(PayloadBytes, MaxPayload)}

\* the grpc-message header next to a grpc-status header
Messages(status) == IF status = "null" THEN {"null"} ELSE {"null", "boom"}

Responses ==
  {[net |-> "fail", http |-> 0, status |-> "null", message |-> "null",
    body |-> <<>>]} \cup
  {r \in [net : {"ok"}, http : {200, 500}, status : {"null", "0", "2"},
          message : {"null", "boom"}, body : Bodies] :
     r.message \in Messages(r.status)}

NoTimers == <<>>

\* no unary call is made
NoCall ==
  [d |-> Desc(NodeService, "ConnectToPeer"),
   resp |-> [net |-> "fail", http |-> 0, status |-> "null",
             message |-> "null", body |-> <<>>],
   lifetimeOk |-> TRUE, phase |-> "settled", called |-> FALSE,
   exch |-> Ok(NoValue), result |-> Ok(NoValue), hook |-> "none"]

\* no fan-out read and no frame round trip is under way
ReadIdle ==
  /\ fan = [phase |-> "idle"]
  /\ codec = [phase |-> "idle"]

HookIdle ==
  /\ kind = "node"
  /\ network = "none"
  /\ alive = FALSE
  /\ effects = <<>>
  /\ unsubState = 0
  /\ isConnected = FALSE
  /\ lastEvent = <<>>
  /\ streams = <<>>

(***************************************************************************)
(* CallSpec: one use of a mutation hook (useConnectToPeer, useOpenChannel, *)
(* useDepositChannel, useWithdrawChannel, useCloseChannel,                 *)
(* useForceCloseChannel, useRentChannel, useInitMarket): mutate() with the *)
(* arguments and the server's response drawn by CallInit.                  *)
(***************************************************************************)
CallInit ==
  /\ lastCall \in [d : MutatingDescriptors, resp : Responses,
                   lifetimeOk : BOOLEAN, phase : {"idle"}, called : {FALSE},
                   exch : {Ok(NoValue)}, result : {Ok(NoValue)}, hook : {"none"}]
  /\ (lastCall.d # Desc(RentalService, "RentChannel") => lastCall.lifetimeOk)
  /\ sent = 0
  /\ stale = {}
  /\ invalidated = <<>>
  /\ timers = NoTimers
  /\ HookIdle
  /\ ReadIdle

\* the times useMutation runs mutationFn when it settles with r: the hooks
\* pass no retry option and the query client retries no mutation
MutationFnRuns(r) == 1

\* useMutation: mutationFn, then onSuccess when it resolved, onError when it
\* rejected
Mutate ==
  /\ lastCall.phase = "idle"
  /\ LET r == ClientOp(lastCall.d, lastCall.resp, lastCall.lifetimeOk)
         c == Reaches(lastCall.d, lastCall.lifetimeOk)
     IN  /\ lastCall' = [lastCall EXCEPT !.phase = "settled", !.called = c,
                           !.exch = IF c THEN grpcCall(lastCall.d, lastCall.resp)
                                    ELSE Ok(NoValue),
                           !.result = r,
                           !.hook = IF r.kind = "ok" THEN "onSuccess" ELSE "onError"]
         /\ sent' = IF c THEN sent + Fetches(lastCall.d, lastCall.resp)
                                      * MutationFnRuns(r)
                         ELSE sent
         /\ IF r.kind = "ok"
              THEN /\ invalidated' = OnSuccessKeys(lastCall.d)
                   /\ stale' = stale \cup MatchingAll(OnSuccessKeys(lastCall.d))
                   /\ timers' = timers \o OnSuccessTimers(lastCall.d)
              ELSE UNCHANGED <<invalidated, stale, timers>>
  /\ UNCHANGED <<readVars, hookVars>>

\* a delayed queryClient.invalidateQueries of useConnectToPeer.onSuccess runs
InvalidateTimerFires ==
  /\ \E i \in 1..Len(timers) :
       /\ timers[i].what = "invalidate"
       /\ IsNext(i)
       /\ invalidated' = << timers[i].key >>
       /\ stale' = stale \cup Matching(timers[i].key)
       /\ timers' = AfterFiring(i)
  /\ UNCHANGED <<readVars, callVars, hookVars>>

\* the query layer refetches a stale query, which is fresh again
Refetch ==
  /\ \E q \in stale : stale' = stale \ {q}
  /\ UNCHANGED <<readVars, callVars, invalidated, timers, hookVars>>

CallNext == Mutate \/ InvalidateTimerFires \/ Refetch

CallSpec == CallInit /\ [][CallNext]_vars

(***************************************************************************)
(* ExecSpec: one grpcCall of any call descriptor the client wrappers use,  *)
(* on any response.                                                        *)
(***************************************************************************)
ReadDescriptors ==
  { Desc(AppService, "GetNetworks"), Desc(AssetService, "GetAsset"),
    Desc(AssetService, "GetAssets"), Desc(BlockchainService, "GetFeeEstimates"),
    Desc(ClientService, "GetDepositAddress"),
    Desc(NodeService, "EstimateCloseChannelFee"),
    Desc(NodeService, "EstimateDepositChannelFee"),
    Desc(NodeService, "EstimateForceCloseChannelFee"),
    Desc(NodeService, "EstimateOpenChannelFee"),
    Desc(NodeService, "EstimateWithdrawChannelFee"),
    Desc(NodeService, "GetConnectedPeers"),
    Desc(OrderbookService, "GetInitializedMarkets"),
    Desc(OrderbookService, "GetMarketInfo"), Desc(OrderbookService, "GetMarkets"),
    Desc(OrderbookService, "GetMarketsInfo"),
    Desc(PricingService, "GetAssetFiatPrice"),
    Desc(RentalService, "EstimateRentChannelFee"),
    Desc(RentalService, "GetRentableAssetInfo"),
    Desc(RentalService, "GetRentalNodeInfo"), Desc(WalletService, "GetBalances"),
    Desc(WalletService, "GetTransactions"),
    Desc(WatchOnlyNodeService, "GetChannels") }

Descriptors == MutatingDescriptors \cup ReadDescriptors

ExecInit ==
  /\ lastCall \in [d : Descriptors, resp : Responses, lifetimeOk : {TRUE},
                   phase : {"idle"}, called : {FALSE}, exch : {Ok(NoValue)},
                   result : {Ok(NoValue)}, hook : {"none"}]
  /\ sent = 0
  /\ stale = {}
  /\ invalidated = <<>>
  /\ timers = NoTimers
  /\ HookIdle
  /\ ReadIdle

\* this.grpcCall(servicePath, method, request, encoder) settles
Exec ==
  /\ lastCall.phase = "idle"
  /\ lastCall' = [lastCall EXCEPT !.phase = "settled", !.called = TRUE,
                    !.exch = grpcCall(lastCall.d, lastCall.resp),
                    !.result = grpcCall(lastCall.d, lastCall.resp)]
  /\ sent' = sent + Fetches(lastCall.d, lastCall.resp)
  /\ UNCHANGED <<readVars, stale, invalidated, timers, hookVars>>

ExecNext == Exec

ExecSpec == ExecInit /\ [][ExecNext]_vars

(***************************************************************************)
(* The fan-out reads: getBalances, getChannels, getPeers and               *)
(* getTransactions() ask getNetworks for the configured networks and then  *)
(* call grpcCall for one network after another.                            *)
(***************************************************************************)
\* networks the backend is configured with
MaxNetworks == 3

\* a network (protocol and id) is one byte; in a text it stands for an id
\* that the patterns of the GetNetworks workaround match
NetIds == {64 + k : k \in 1..MaxNetworks}

RECURSIVE NoRepeat(_)
NoRepeat(l) ==
  Len(l) < 2 \/ (/\ \A i \in 2..Len(l) : l[i] # l[1]
                 /\ NoRepeat(Tail(l)))

NetLists == {l \in SeqsUpTo(NetIds, MaxNetworks) : NoRepeat(l)}

\* GetNetworksResponse.encode: one length-delimited entry per network
RECURSIVE EncodeNetworks(_)
EncodeNetworks(l) ==
  IF l = <<>> THEN <<>> ELSE <<TAG1, 1, Head(l)>> \o EncodeNetworks(Tail(l))

\* the contents of the entries of field 1 of a message that decodes
RECURSIVE EntriesIn(_)
EntriesIn(b) ==
  IF b = <<>> \/ Head(b) # TAG1 \/ Len(b) < 2 THEN <<>>
  ELSE <<SubSeq(b, 3, 2 + b[2])>> \o EntriesIn(SubSeq(b, 3 + b[2], Len(b)))

RECURSIVE Flat(_)
Flat(ll) == IF ll = <<>> THEN <<>> ELSE Head(ll) \o Flat(Tail(ll))

RECURSIVE Dedup(_, _)
Dedup(l, seen) ==
  IF l = <<>> THEN <<>>
  ELSE IF Head(l) \in seen THEN Dedup(Tail(l), seen)
  ELSE <<Head(l)>> \o Dedup(Tail(l), seen \cup {Head(l)})

\* the ids the text workaround of GetNetworks extracts: every match, once
TextNetworks(body) == Dedup(SelectSeq(body, LAMBDA x : x \in NetIds), {})

\* result.networks of the value grpcCall returned for GetNetworks
NetworksOf(r, body) ==
  IF r.value.tag = "decoded" THEN Flat(EntriesIn(ViewFrom5(body).bytes))
  ELSE IF r.value.tag = "networks_text" THEN TextNetworks(body)
  ELSE <<>>

\* getNetworks without its catch block
getNetworksUncaught(resp) ==
  LET r == grpcCall(Desc(AppService, "GetNetworks"), resp)
  IN  IF r.kind = "err" THEN [raised |-> TRUE, networks |-> <<>>]
      ELSE [raised |-> FALSE, networks |-> NetworksOf(r, resp.body)]

\* getNetworks: result.networks || [], and [] when grpcCall throws
getNetworks(resp) ==
  LET r == grpcCall(Desc(AppService, "GetNetworks"), resp)
  IN  IF r.kind = "err" THEN [raised |-> FALSE, networks |-> <<>>]
      ELSE [raised |-> FALSE, networks |-> NetworksOf(r, resp.body)]

FanOps == {"getBalances", "getChannels", "getPeers", "getTransactions"}

FanDesc(op) ==
  IF op = "getBalances" THEN Desc(WalletService, "GetBalances")
  ELSE IF op = "getChannels" THEN Desc(WatchOnlyNodeService, "GetChannels")
  ELSE IF op = "getPeers" THEN Desc(NodeService, "GetConnectedPeers")
  ELSE Desc(WalletService, "GetTransactions")

Item(n, data) == [net |-> n, data |-> data]

\* result.balances / .channels / .nodeIds / .transactions of the value
\* grpcCall returned for network n, as items of the aggregate.  A balances
\* entry without a value is left out by the decoder.
ItemsOf(op, r, body, n) ==
  IF r.value.tag = "decoded"
    THEN LET es == EntriesIn(ViewFrom5(body).bytes)
             kept == IF op = "getBalances"
                       THEN SelectSeq(es, LAMBDA e : e # <<>>) ELSE es
         IN  [i \in 1..Len(kept) |-> Item(n, kept[i])]
  ELSE IF r.value.tag = "balances_parsed" THEN << Item(n, <<ASSET>>) >>
  ELSE <<>>

\* target[key] = value for one entry: the value of a key the aggregate has
\* is replaced where it stands, a new key is added last
Put(agg, it) ==
  IF \E k \in 1..Len(agg) : agg[k].data = it.data
    THEN [k \in 1..Len(agg) |-> IF agg[k].data = it.data THEN it ELSE agg[k]]
  ELSE Append(agg, it)

\* Object.assign(allBalances, result.balances)
RECURSIVE Assign(_, _)
Assign(agg, items) ==
  IF items = <<>> THEN agg ELSE Assign(Put(agg, Head(items)), Tail(items))

\* the aggregate after the result of one network is merged: balances are
\* assigned by asset, channels, peers and transactions are pushed
Merge(op, agg, items) ==
  IF op = "getBalances" THEN Assign(agg, items) ELSE agg \o items

\* a loop body whose catch block rethrows
PerNetworkRethrowing(op, resp, n) ==
  LET r == grpcCall(FanDesc(op), resp)
  IN  IF r.kind = "err" THEN [raised |-> TRUE, items |-> <<>>]
      ELSE [raised |-> FALSE, items |-> ItemsOf(op, r, resp.body, n)]

\* the body of the per-network loop once grpcCall has settled: the result
\* is merged, an error is caught and logged
PerNetwork(op, resp, n) ==
  LET r == grpcCall(FanDesc(op), resp)
  IN  IF r.kind = "err" THEN [raised |-> FALSE, items |-> <<>>]
      ELSE [raised |-> FALSE, items |-> ItemsOf(op, r, resp.body, n)]

FetchFailed ==
  [net |-> "fail", http |-> 0, status |-> "null", message |-> "null",
   body |-> <<>>]

Http200(status, body) ==
  [net |-> "ok", http |-> 200, status |-> status, message |-> "null",
   body |-> body]

\* the answers to GetNetworks of a backend configured with the networks l:
\* none, the encoded list with status zero, the list as a text with the
\* success marker and no status
NetResponses(l) ==
  { FetchFailed, Http200("0", Frame(EncodeNetworks(l))),
    Http200("null", Frame(<<BADTAG, MARKER>> \o l)) }

\* the answers to the call for one network: none; one encoded entry with
\* status zero; one encoded entry, of another key, with no status; no status
\* and a body that does not decode, without and with the success marker
FanResponses ==
  { FetchFailed, Http200("0", Frame(<<TAG1, 1, ASSET>>)),
    Http200("null", Frame(<<TAG1, 1, ASSET + 2>>)),
    Http200("null", Frame(<<BADTAG>>)),
    Http200("null", Frame(<<BADTAG, MARKER>>)) }

Range(seq) == {seq[i] : i \in 1..Len(seq)}

(***************************************************************************)
(* FanSpec: one fan-out read.  A step is the code between two awaits.      *)
(***************************************************************************)
\* useGrpcStatus before its query has data
NoProbe == [connected |-> FALSE, error |-> "pending"]

\* the queryFn of useGrpcStatus around its `await getBalances()`: try {
\* return connected } catch { return not connected, with the message }
useGrpcStatus(result) ==
  IF result = "raised" THEN [connected |-> FALSE, error |-> "message"]
  ELSE [connected |-> TRUE, error |-> "null"]

FanInit ==
  /\ \E op \in FanOps, l \in NetLists :
       \E nr \in NetResponses(l), rs \in [Range(l) -> FanResponses] :
         fan = [phase |-> "start", op |-> op, configured |-> l, netResp |-> nr,
                resps |-> rs, networks |-> <<>>, i |-> 0, sends |-> <<>>,
                inflight |-> {}, agg |-> <<>>, result |-> "none",
                probe |-> NoProbe]
  /\ codec = [phase |-> "idle"]
  /\ lastCall = NoCall
  /\ sent = 0
  /\ stale = {}
  /\ invalidated = <<>>
  /\ timers = NoTimers
  /\ HookIdle

\* the read is called: it awaits getNetworks(), which awaits its fetch
FanStart ==
  /\ fan.phase = "start"
  /\ fan' = [fan EXCEPT !.phase = "networks"]
  /\ sent' = sent + 1
  /\ UNCHANGED <<codec, lastCall, stale, invalidated, timers, hookVars>>

\* the value of the read when it gets no network list
WithoutNetworks(op, raised) ==
  IF raised /\ op = "getBalances" THEN "raised" ELSE "returned"

\* getNetworks() settles: with no network the read returns its empty
\* aggregate, else the loop starts and awaits the call for the first network
NetworksSettle ==
  /\ fan.phase = "networks"
  /\ LET g == getNetworks(fan.netResp)
         n == Len(g.networks)
     IN  IF g.raised \/ n = 0
           THEN /\ fan' = [fan EXCEPT !.phase = "settled",
                                      !.result = WithoutNetworks(fan.op, g.raised)]
                /\ sent' = sent
           ELSE /\ fan' = [fan EXCEPT !.phase = "awaiting", !.networks = g.networks,
                                      !.i = 1, !.inflight = {1},
                                      !.sends = [j \in 1..n |-> IF j = 1 THEN 1 ELSE 0]]
                /\ sent' = sent + 1
  /\ UNCHANGED <<codec, lastCall, stale, invalidated, timers, hookVars>>

\* the value of the read when its loop is left by an error
AfterRaise(op) == IF op = "getBalances" THEN "raised" ELSE "returned"

\* the call for network i settles: its result is merged or its error caught;
\* then the loop awaits the call for the next network, or the read returns
CallSettles ==
  /\ fan.phase = "awaiting"
  /\ LET n == fan.networks[fan.i]
         p == PerNetwork(fan.op, fan.resps[n], n)
         next == fan.i + 1
     IN  IF p.raised
           THEN /\ fan' = [fan EXCEPT !.phase = "settled", !.inflight = {},
                                      !.agg = IF fan.op = "getBalances"
                                                THEN fan.agg ELSE <<>>,
                                      !.result = AfterRaise(fan.op)]
                /\ sent' = sent
         ELSE IF fan.i = Len(fan.networks)
           THEN /\ fan' = [fan EXCEPT !.phase = "settled", !.inflight = {},
                                      !.agg = Merge(fan.op, fan.agg, p.items),
                                      !.result = "returned"]
                /\ sent' = sent
         ELSE /\ fan' = [fan EXCEPT !.i = next, !.inflight = {next},
                                    !.agg = Merge(fan.op, fan.agg, p.items),
                                    !.sends[next] = fan.sends[next] + 1]
              /\ sent' = sent + 1
  /\ UNCHANGED <<codec, lastCall, stale, invalidated, timers, hookVars>>

\* the getBalances() of the status probe has settled: its queryFn returns
StatusProbe ==
  /\ fan.phase = "settled"
  /\ fan.op = "getBalances"
  /\ fan' = [fan EXCEPT !.phase = "probed", !.probe = useGrpcStatus(fan.result)]
  /\ UNCHANGED <<codec, callVars, stale, invalidated, timers, hookVars>>

FanNext == FanStart \/ NetworksSettle \/ CallSettles \/ StatusProbe

FanSpec == FanInit /\ [][FanNext]_vars

(***************************************************************************)
(* FrameSpec: a message is framed the way grpcCall frames a request, the   *)
(* transport may cut the buffer short, and the buffer is deframed the way  *)
(* grpcCall deframes a response.                                           *)
(***************************************************************************)
NoView == [ok |-> FALSE, bytes |-> <<>>]

\* no request built yet
NoRequest ==
  [kind |-> "none", contentType |-> "", accept |-> "", xGrpcWeb |-> FALSE,
   body |-> <<>>]

\* lines 75-95: the fetch of grpcCall: headers and the framed message
UnaryRequest(msg) ==
  [kind |-> "unary", contentType |-> "application/grpc-web+proto",
   accept |-> "application/grpc-web+proto", xGrpcWeb |-> TRUE,
   body |-> Frame(msg)]

\* lines 1523-1530 and 1595-1602: the fetch of subscribeToNodeEvents and of
\* subscribeToClientEvents: headers and the encoded request as it is
SubscribeRequest(msg) ==
  [kind |-> "subscribe", contentType |-> "application/grpc-web+proto",
   accept |-> "application/grpc-web+proto", xGrpcWeb |-> FALSE,
   body |-> msg]

FrameInit ==
  /\ codec \in [phase : {"message"},
                 payload : SeqsUpTo(PayloadBytes, MaxPayload + 1),
                 buffer : {<<>>}, cut : {FALSE}, view : {NoView},
                 request : {NoRequest}]
  /\ fan = [phase |-> "idle"]
  /\ lastCall = NoCall
  /\ sent = 0
  /\ stale = {}
  /\ invalidated = <<>>
  /\ timers = NoTimers
  /\ HookIdle

\* the request framing of grpcCall
EncodeFrame ==
  /\ codec.phase = "message"
  /\ codec' = [codec EXCEPT !.phase = "framed",
                            !.request = UnaryRequest(codec.payload),
                            !.buffer = UnaryRequest(codec.payload).body]
  /\ UNCHANGED <<fan, callVars, stale, invalidated, timers, hookVars>>

\* only the first n bytes of the buffer arrive
CutShort(n) ==
  /\ codec.phase = "framed"
  /\ ~codec.cut
  /\ n < Len(codec.buffer)
  /\ codec' = [codec EXCEPT !.cut = TRUE, !.buffer = SubSeq(codec.buffer, 1, n)]
  /\ UNCHANGED <<fan, callVars, stale, invalidated, timers, hookVars>>

\* the response deframing of grpcCall
DecodeFrame ==
  /\ codec.phase = "framed"
  /\ codec' = [codec EXCEPT !.phase = "deframed", !.view = ViewFrom5(codec.buffer)]
  /\ UNCHANGED <<fan, callVars, stale, invalidated, timers, hookVars>>

\* the request of a stream subscription is built and sent
Subscribe ==
  /\ codec.phase = "message"
  /\ codec' = [codec EXCEPT !.phase = "subscribed",
                            !.request = SubscribeRequest(codec.payload)]
  /\ UNCHANGED <<fan, callVars, stale, invalidated, timers, hookVars>>

FrameNext ==
  \/ EncodeFrame
  \/ Subscribe
  \/ \E n \in 0..(HeaderLen + MaxPayload) : CutShort(n)
  \/ DecodeFrame

FrameSpec == FrameInit /\ [][FrameNext]_vars


(***************************************************************************)
(* The stream subscriber and the stream hooks.                             *)
(***************************************************************************)
\* changes of the hook's network argument in one behaviour
MaxEffects == 2

\* failed connection attempts and read errors in one behaviour
MaxFailures == 1

\* frames the server sends in one behaviour
MaxFrames == 1

\* setTimeout delay of handleError, in seconds
ReconnectDelay == 5

Networks == {"N1"}

Variants == {"channelUpdate", "channelClosed", "assetChannelUpdate", "paymentUpdate"}

\* the oneof field of NodeEvent that carries each variant
VariantTag(v) ==
  IF v = "channelUpdate" THEN TAG1
  ELSE IF v = "channelClosed" THEN TAG2
  ELSE IF v = "assetChannelUpdate" THEN TAG3
  ELSE TAG4

\* the message bytes of an event of variant v: the field, with an empty
\* sub-message
Encode(v) == <<VariantTag(v), 0>>

\* NodeEvent.decode / ClientEvent.decode: the variants found in the bytes
EventOf(fields) ==
  {v \in Variants : \E i \in 1..Len(fields) : fields[i] = FieldNo(VariantTag(v))}

(***************************************************************************)
(* new Uint8Array(value, 5) on a chunk read from the stream: `value` is a  *)
(* Uint8Array, and the typed-array constructor copies a typed array whole, *)
(* ignoring the offset: the 5 header bytes are not skipped.                *)
(***************************************************************************)
CopyOfChunk(value) == value

ChunkDecode(value) == ProtoDecode(CopyOfChunk(value))

NewStream(e, n) ==
  [eff |-> e, net |-> n, phase |-> "fetching", isActive |-> FALSE,
   conn |-> "connecting", wire |-> <<>>, value |-> <<>>, framed |-> <<>>,
   onEvent |-> <<>>, onError |-> 0, raised |-> 0, readErr |-> FALSE,
   cancelled |-> FALSE]

\* the failed connection attempts and the read errors so far
Failures ==
  Cardinality({s \in 1..Len(streams) :
                 streams[s].phase = "failed" \/ streams[s].readErr})

\* the frames the server has sent so far
FramesSent ==
  LET RECURSIVE Sum(_)
      Sum(n) == IF n = 0 THEN 0 ELSE Len(streams[n].framed) + Sum(n - 1)
  IN  Sum(Len(streams))

\* the `unsubscribe` closure of stream s: isActive = false; reader.cancel().
\* A pending read resolves with done; the connection is released.
Unsubscribed(st) ==
  [st EXCEPT !.isActive = FALSE,
             !.conn = "closed",
             !.phase = IF st.phase = "reading" THEN "done" ELSE st.phase,
             !.wire = <<>>,
             !.cancelled = TRUE]

\* handleNodeEvent without the balances of a payment event
NodeEventKeysNoBalances(ev) ==
  (IF ev \cap {"channelUpdate", "channelClosed", "assetChannelUpdate"} # {}
     THEN << <<"hydra", "channels">>, <<"hydra", "balances">> >> ELSE <<>>) \o
  (IF "paymentUpdate" \in ev THEN << <<"hydra", "payments">> >> ELSE <<>>)

\* handleNodeEvent: the keys passed to invalidateQueries, in order
NodeEventKeys(ev) ==
  (IF "channelUpdate" \in ev
     THEN << <<"hydra", "channels">>, <<"hydra", "balances">> >> ELSE <<>>) \o
  (IF "channelClosed" \in ev
     THEN << <<"hydra", "channels">>, <<"hydra", "balances">> >> ELSE <<>>) \o
  (IF "assetChannelUpdate" \in ev
     THEN << <<"hydra", "channels">>, <<"hydra", "balances">> >> ELSE <<>>) \o
  (IF "paymentUpdate" \in ev
     THEN << <<"hydra", "payments">>, <<"hydra", "balances">> >> ELSE <<>>)

\* handleClientEvent: the keys passed to invalidateQueries
ClientEventKeys(ev) == << <<"hydra", "balances">> >>

\* handleNodeEvent / handleClientEvent of effect e: nothing once the effect
\* is cleaned up (`if (!mounted) return`)
HandlerKeys(e, ev) ==
  IF ~effects[e].mounted THEN <<>>
  ELSE IF kind = "node" THEN NodeEventKeys(ev)
  ELSE ClientEventKeys(ev)

ReconnectTimer(e) ==
  [what |-> "reconnect", eff |-> e, key |-> <<>>, left |-> ReconnectDelay]

\* a reconnect armed by handleError and again by the catch block of
\* connectToEvents
HandleErrorTimersTwice(e) ==
  IF effects[e].mounted /\ kind = "node"
    THEN timers \o <<ReconnectTimer(e), ReconnectTimer(e)>>
  ELSE timers

\* handleError of effect e: the timers after it ran.  Only useNodeEventStream
\* arms a reconnect.
HandleErrorTimers(e) ==
  IF effects[e].mounted /\ kind = "node" THEN Append(timers, ReconnectTimer(e))
  ELSE timers

(***************************************************************************)
(* Spec: one instance of useNodeEventStream or useClientEventStream.       *)
(* State updates (setIsConnected, setUnsubscribe, setLastEvent) of an      *)
(* unmounted component are dropped.                                        *)
(***************************************************************************)
Init ==
  /\ lastCall = [d |-> Desc(NodeService, "ConnectToPeer"),
                 resp |-> [net |-> "fail", http |-> 0, status |-> "null",
                           message |-> "null", body |-> <<>>],
                 lifetimeOk |-> TRUE, phase |-> "settled", called |-> FALSE,
                 exch |-> Ok(NoValue), result |-> Ok(NoValue), hook |-> "none"]
  /\ sent = 0
  /\ stale = {}
  /\ invalidated = <<>>
  /\ timers = NoTimers
  /\ kind \in {"node", "client"}
  /\ network = "none"
  /\ alive = TRUE
  /\ effects = <<>>
  /\ unsubState = 0
  /\ isConnected = FALSE
  /\ lastEvent = <<>>
  /\ streams = <<>>
  /\ ReadIdle

\* the effect that is in place: the last one, unless it is cleaned up
Current == Len(effects)

HasCurrent == effects # <<>> /\ effects[Current].mounted

\* the cleanup of the effect in place: mounted = false; the `unsubscribe` the
\* effect closed over, the state of the render that created the effect, is
\* called when it is not null
CleanedEffects ==
  IF HasCurrent THEN [effects EXCEPT ![Current].mounted = FALSE] ELSE effects

CleanedStreams ==
  IF HasCurrent /\ effects[Current].captured # 0
    THEN [streams EXCEPT ![effects[Current].captured] =
            Unsubscribed(streams[effects[Current].captured])]
    ELSE streams

\* the hook is rendered with another network: the cleanup of the effect in
\* place runs, then the effect runs again and calls connectToEvents()
ChangeNetwork(n) ==
  /\ alive
  /\ n # network
  /\ Len(effects) < MaxEffects
  /\ network' = n
  /\ IF n = "none"
       THEN /\ effects' = CleanedEffects
            /\ streams' = CleanedStreams
       ELSE /\ effects' = Append(CleanedEffects,
                                 [network |-> n, mounted |-> TRUE,
                                  captured |-> unsubState])
            /\ streams' = Append(CleanedStreams, NewStream(Len(effects) + 1, n))
  /\ isConnected' = FALSE
  /\ UNCHANGED <<readVars, callVars, stale, invalidated, timers, kind, alive, unsubState,
                 lastEvent>>

\* the component unmounts: the cleanup of the effect in place runs
Unmount ==
  /\ alive
  /\ alive' = FALSE
  /\ effects' = CleanedEffects
  /\ streams' = CleanedStreams
  /\ UNCHANGED <<readVars, callVars, stale, invalidated, timers, kind, network,
                 unsubState, isConnected, lastEvent>>

\* the user of the hook calls the `disconnect` it returns
Disconnect ==
  /\ alive
  /\ unsubState # 0
  /\ streams' = [streams EXCEPT ![unsubState] = Unsubscribed(streams[unsubState])]
  /\ UNCHANGED <<readVars, callVars, stale, invalidated, timers, kind, network, alive,
                 effects, unsubState, isConnected, lastEvent>>

\* fetch resolves with an ok response: the reader is taken, processStream
\* starts its first read, subscribe returns `unsubscribe`, and connectToEvents
\* stores it when its effect is still mounted
FetchOk(s) ==
  /\ streams[s].phase = "fetching"
  /\ streams' = [streams EXCEPT ![s].phase = "reading", ![s].isActive = TRUE,
                                ![s].conn = "open"]
  /\ IF effects[streams[s].eff].mounted /\ alive
       THEN unsubState' = s /\ isConnected' = TRUE
       ELSE UNCHANGED <<unsubState, isConnected>>
  /\ UNCHANGED <<readVars, callVars, stale, invalidated, timers, kind, network, alive,
                 effects, lastEvent>>

\* fetch rejects, or the response is not ok or has no body: the catch block
\* calls onError and rethrows; connectToEvents catches and clears isConnected
FetchFailsWithin(s, max) ==
  /\ streams[s].phase = "fetching"
  /\ Failures < max
  /\ streams' = [streams EXCEPT ![s].phase = "failed", ![s].conn = "closed",
                                ![s].onError = streams[s].onError + 1,
                                ![s].raised = streams[s].raised + 1]
  /\ timers' = HandleErrorTimers(streams[s].eff)
  /\ isConnected' = IF alive THEN FALSE ELSE isConnected
  /\ UNCHANGED <<readVars, callVars, stale, invalidated, kind, network, alive, effects,
                 unsubState, lastEvent>>

FetchFails(s) == FetchFailsWithin(s, MaxFailures)

\* the server frames one more event on an open connection
ServerFrames(s, v) ==
  /\ streams[s].conn = "open"
  /\ FramesSent < MaxFrames
  /\ streams' = [streams EXCEPT ![s].wire = streams[s].wire \o Frame(Encode(v)),
                                ![s].framed = Append(streams[s].framed, {v})]
  /\ UNCHANGED <<readVars, callVars, stale, invalidated, timers, kind, network, alive,
                 effects, unsubState, isConnected, lastEvent>>

\* the transport hands the next n bytes to the pending read as one chunk
Deliver(s, n) ==
  /\ streams[s].phase = "reading"
  /\ streams[s].conn = "open"
  /\ n \in 1..Len(streams[s].wire)
  /\ streams' = [streams EXCEPT ![s].phase = "value",
                                ![s].value = SubSeq(streams[s].wire, 1, n),
                                ![s].wire = SubSeq(streams[s].wire, n + 1,
                                                   Len(streams[s].wire))]
  /\ UNCHANGED <<readVars, callVars, stale, invalidated, timers, kind, network, alive,
                 effects, unsubState, isConnected, lastEvent>>

\* the server ends the stream: the pending read resolves with done
ServerEnds(s) ==
  /\ streams[s].phase = "reading"
  /\ streams[s].conn = "open"
  /\ streams[s].wire = <<>>
  /\ streams' = [streams EXCEPT ![s].phase = "done", ![s].conn = "closed"]
  /\ UNCHANGED <<readVars, callVars, stale, invalidated, timers, kind, network, alive,
                 effects, unsubState, isConnected, lastEvent>>

\* the connection breaks: the pending read rejects
ReadFailsWithin(s, max) ==
  /\ streams[s].phase = "reading"
  /\ streams[s].conn = "open"
  /\ Failures < max
  /\ streams' = [streams EXCEPT ![s].phase = "rejected", ![s].conn = "closed",
                                ![s].wire = <<>>, ![s].readErr = TRUE]
  /\ UNCHANGED <<readVars, callVars, stale, invalidated, timers, kind, network, alive,
                 effects, unsubState, isConnected, lastEvent>>

ReadFails(s) == ReadFailsWithin(s, MaxFailures)

\* processStream resumes after `await reader.read()` with a chunk: the chunk
\* is decoded and onEvent is called, a decode error is only logged; then the
\* loop tests isActive
ChunkRead(s) ==
  /\ streams[s].phase = "value"
  /\ LET dec == ChunkDecode(streams[s].value)
         ev == EventOf(dec.fields)
         e == streams[s].eff
         next == IF streams[s].isActive THEN "reading" ELSE "ended"
     IN  IF dec.ok
           THEN /\ streams' = [streams EXCEPT ![s].phase = next, ![s].value = <<>>,
                                 ![s].onEvent = Append(streams[s].onEvent, ev)]
                /\ invalidated' = HandlerKeys(e, ev)
                /\ stale' = stale \cup MatchingAll(HandlerKeys(e, ev))
                /\ lastEvent' = IF effects[e].mounted /\ alive THEN <<ev>> ELSE lastEvent
           ELSE /\ streams' = [streams EXCEPT ![s].phase = next, ![s].value = <<>>,
                                 ![s].raised = streams[s].raised + 1]
                /\ UNCHANGED <<invalidated, stale, lastEvent>>
  /\ UNCHANGED <<readVars, callVars, timers, kind, network, alive, effects, unsubState,
                 isConnected>>

\* processStream resumes with done: the loop is left
DoneRead(s) ==
  /\ streams[s].phase = "done"
  /\ streams' = [streams EXCEPT ![s].phase = "ended"]
  /\ UNCHANGED <<readVars, callVars, stale, invalidated, timers, kind, network, alive,
                 effects, unsubState, isConnected, lastEvent>>

\* processStream resumes with the read's error: onError is called when the
\* stream is still active
ErrorRead(s) ==
  /\ streams[s].phase = "rejected"
  /\ IF streams[s].isActive
       THEN /\ streams' = [streams EXCEPT ![s].phase = "ended",
                             ![s].onError = streams[s].onError + 1,
                             ![s].raised = streams[s].raised + 1]
            /\ timers' = HandleErrorTimers(streams[s].eff)
            /\ isConnected' = IF effects[streams[s].eff].mounted /\ alive
                                THEN FALSE ELSE isConnected
       ELSE /\ streams' = [streams EXCEPT ![s].phase = "ended"]
            /\ UNCHANGED <<timers, isConnected>>
  /\ UNCHANGED <<readVars, callVars, stale, invalidated, kind, network, alive, effects,
                 unsubState, lastEvent>>

\* the reconnect timer of handleError runs: connectToEvents() when the effect
\* is still mounted
ReconnectTimerFires ==
  /\ \E i \in 1..Len(timers) :
       /\ timers[i].what = "reconnect"
       /\ IsNext(i)
       /\ timers' = AfterFiring(i)
       /\ IF effects[timers[i].eff].mounted
            THEN /\ streams' = Append(streams,
                                      NewStream(timers[i].eff,
                                                effects[timers[i].eff].network))
                 /\ isConnected' = FALSE
            ELSE UNCHANGED <<streams, isConnected>>
  /\ UNCHANGED <<readVars, callVars, stale, invalidated, kind, network, alive, effects,
                 unsubState, lastEvent>>

Next ==
  \/ \E n \in Networks \cup {"none"} : ChangeNetwork(n)
  \/ Unmount
  \/ Disconnect
  \/ \E s \in 1..Len(streams) : FetchOk(s)
  \/ \E s \in 1..Len(streams) : FetchFails(s)
  \/ \E s \in 1..Len(streams), v \in Variants : ServerFrames(s, v)
  \/ \E s \in 1..Len(streams), n \in 1..(MaxFrames * 7) : Deliver(s, n)
  \/ \E s \in 1..Len(streams) : ServerEnds(s)
  \/ \E s \in 1..Len(streams) : ReadFails(s)
  \/ \E s \in 1..Len(streams) : ChunkRead(s)
  \/ \E s \in 1..Len(streams) : DoneRead(s)
  \/ \E s \in 1..Len(streams) : ErrorRead(s)
  \/ ReconnectTimerFires

Spec == Init /\ [][Next]_vars

\* the steps of the client's own code are taken when they can be: a resolved
\* read resumes processStream, a due timer runs.  The server, the transport
\* and the user of the hook are under no obligation.
Fairness ==
  /\ WF_vars(ReconnectTimerFires)
  /\ \A s \in 1..(MaxEffects + MaxFailures) :
       /\ WF_vars(s <= Len(streams) /\ ChunkRead(s))
       /\ WF_vars(s <= Len(streams) /\ DoneRead(s))
       /\ WF_vars(s <= Len(streams) /\ ErrorRead(s))

FairSpec == Init /\ [][Next]_vars /\ Fairness

(***************************************************************************)
(* RetrySpec: the same hook on a server that sends no event and ends no    *)
(* stream, with more failures in a row.                                    *)
(***************************************************************************)
MaxRetries == 3

RetryNext ==
  \/ \E n \in Networks \cup {"none"} : ChangeNetwork(n)
  \/ Unmount
  \/ Disconnect
  \/ \E s \in 1..Len(streams) : FetchOk(s)
  \/ \E s \in 1..Len(streams) : FetchFailsWithin(s, MaxRetries)
  \/ \E s \in 1..Len(streams) : ReadFailsWithin(s, MaxRetries)
  \/ \E s \in 1..Len(streams) : ErrorRead(s)
  \/ ReconnectTimerFires

RetrySpec == Init /\ [][RetryNext]_vars

(***************************************************************************)
(* Claims about the unary calls, checked under CallSpec.                   *)
(***************************************************************************)
Settled == lastCall.phase = "settled"

\* the call reached grpcCall, whose response had no grpc-status header and no
\* "grpc-status:0" text in its body
NoStatusNoMarker ==
  /\ Settled
  /\ lastCall.called
  /\ lastCall.resp.net = "ok"
  /\ lastCall.resp.status = "null"
  /\ ~HasMarker(lastCall.resp.body)

\* the methods structurally decoded in the status-absent branch
DecodedWithoutStatus ==
  {Desc(NodeService, "OpenChannel"), Desc(RentalService, "RentChannel")}

\* C1 as stated: a mutating call whose response has no status metadata and no
\* recognized success marker ends in an error; grpcCall returns no success
\* value for such a response.
C1_NoStatusNoMarkerFails == NoStatusNoMarker => lastCall.exch.kind = "err"

\* C1 amended: a mutating call whose response has no status metadata and no
\* success marker ends in an error, except OpenChannel and RentChannel answered
\* with HTTP 200 and a body of at least 5 bytes whose bytes after the frame
\* header decode: these return the decoded message.  A value returned for such
\* a response is always a decoded message, never a default made up by the client.
C1_NoStatusNoMarkerFailsUnlessDecoded ==
  NoStatusNoMarker =>
    IF /\ lastCall.d \in DecodedWithoutStatus
       /\ lastCall.resp.http = 200
       /\ Len(lastCall.resp.body) >= HeaderLen
       /\ ProtoDecode(SubSeq(lastCall.resp.body, HeaderLen + 1,
                             Len(lastCall.resp.body))).ok
      THEN /\ lastCall.exch.kind = "ok"
           /\ lastCall.exch.value.tag = "decoded"
      ELSE lastCall.exch.kind = "err"

\* C1 witness: a DepositChannel answered HTTP 200 with a decodable body, no
\* status and no marker has ended in an error
C1_Witness ==
  /\ NoStatusNoMarker
  /\ lastCall.d = Desc(NodeService, "DepositChannel")
  /\ lastCall.resp.http = 200
  /\ lastCall.resp.body = Frame(<<TAG1, 0>>)
  /\ lastCall.exch.kind = "err"

\* the exchange of the mutation ended in Failed: grpcCall threw
ExchangeFailed == Settled /\ lastCall.called /\ lastCall.exch.kind = "err"

\* C2: every mutating client operation rejects whenever its exchange ended in
\* Failed, with the error grpcCall raised; the mutation's onError runs, its
\* onSuccess does not, and nothing is invalidated.
C2_FailedExchangeRejects ==
  ExchangeFailed =>
    /\ lastCall.result = lastCall.exch
    /\ lastCall.hook = "onError"
    /\ invalidated = <<>>
    /\ stale = {}
    /\ timers = NoTimers

\* C2 witness: an OpenChannel whose response had no status and an undecodable
\* body was rejected
C2_Witness ==
  /\ ExchangeFailed
  /\ lastCall.d = Desc(NodeService, "OpenChannel")
  /\ lastCall.resp.http = 200
  /\ lastCall.resp.status = "null"
  /\ lastCall.resp.body = Frame(<<BADTAG>>)
  /\ lastCall.result.kind = "err"
  /\ lastCall.hook = "onError"

(***************************************************************************)
(* Claims about the stream subscriber and the stream hooks, checked under  *)
(* Spec and FairSpec.                                                      *)
(***************************************************************************)
Streams == 1..Len(streams)

Mounted(s) == effects[streams[s].eff].mounted

\* onEvent of stream s is invoked in this step
OnEventIn(s) == Len(streams'[s].onEvent) = Len(streams[s].onEvent) + 1

\* the event it is invoked with
EventIn(s) == streams'[s].onEvent[Len(streams'[s].onEvent)]

\* C3: cancelling a stream twice is cancelling it once, and after the first
\* cancel neither onEvent nor onError of that stream is invoked again,
\* whatever the read was doing when the cancel ran.
C3_NoCallbackAfterCancel ==
  [][\A s \in Streams :
       /\ Unsubscribed(Unsubscribed(streams[s])) = Unsubscribed(streams[s])
       /\ streams[s].cancelled =>
            /\ streams'[s].onEvent = streams[s].onEvent
            /\ streams'[s].onError = streams[s].onError]_vars

\* a stream is cancelled while its read has resolved with a chunk that
\* processStream has not yet looked at
C3_Witness ==
  \E s \in Streams : streams[s].cancelled /\ streams[s].phase = "value"

\* C4: once the cleanup of an effect has run, no stream that effect opened is
\* open: not one that was open at teardown, not one whose subscribe call was
\* in flight, not one a reconnect opened.
C4_TeardownCancelsAll ==
  \A s \in Streams : ~Mounted(s) => streams[s].conn # "open"

\* the cleanup ran while the stream was open
C4_Witness ==
  \E s \in Streams : ~Mounted(s) /\ streams[s].phase # "fetching"

\* C5: an instance of useNodeEventStream has at most one open connection per
\* network.
C5_OneOpenConnection ==
  kind = "node" =>
    \A s, t \in Streams :
      (/\ streams[s].conn = "open"
       /\ streams[t].conn = "open"
       /\ streams[s].net = streams[t].net) => s = t

\* the hook has come back to a network it had left
C5_Witness ==
  /\ kind = "node"
  /\ \E s, t \in Streams :
       s < t /\ streams[s].net = streams[t].net /\ streams[t].conn = "open"

\* stream s met a read error or its connection attempt failed
Errored(s) ==
  s <= Len(streams) /\ (streams[s].phase = "failed" \/ streams[s].readErr)

\* the subscription of stream s is cancelled: by its handle, or by the cleanup
\* of its effect
Cancelled(s) ==
  s <= Len(streams) /\ (streams[s].cancelled \/ ~Mounted(s))

\* a connection attempt was made for the subscription of s after s
Reattempted(s) ==
  \E t \in Streams : t > s /\ streams[t].eff = streams[s].eff

\* C6: a read error or a failed connection attempt of a subscription that is
\* not cancelled is followed by a new connection attempt, for a node-event
\* and for a client-event subscription alike.
C6_ErrorLeadsToReconnect ==
  \A s \in 1..(MaxEffects + MaxFailures) :
    [](Errored(s) => <>(Reattempted(s) \/ Cancelled(s)))

\* the connection attempt of a client-event subscription has failed
C6_Witness ==
  /\ kind = "client"
  /\ \E s \in Streams : streams[s].phase = "failed" /\ ~Cancelled(s)

\* C7: every error raised while reading or decoding a message of a stream is
\* passed to onError.
C7_EveryErrorNotified ==
  \A s \in Streams : streams[s].onError = streams[s].raised

\* a chunk has failed to decode
C7_Witness ==
  \E s \in Streams : streams[s].raised > 0 /\ streams[s].phase = "reading"

\* C8: on one connection, onEvent is invoked once per frame the server sent,
\* in the order of the frames, however the bytes were split into chunks: the
\* events delivered are always a prefix of the events framed, and all of them
\* once every byte is read.
C8_OncePerFrameInOrder ==
  \A s \in Streams :
    ~streams[s].cancelled =>
      /\ IsPrefix(streams[s].onEvent, streams[s].framed)
      /\ (/\ streams[s].phase = "reading"
          /\ streams[s].wire = <<>>) => streams[s].onEvent = streams[s].framed

\* every byte of a frame is read and processed
C8_Witness ==
  \E s \in Streams :
    /\ ~streams[s].cancelled
    /\ streams[s].framed # <<>>
    /\ streams[s].phase = "reading"
    /\ streams[s].wire = <<>>

ChannelsKey == <<"hydra", "channels">>

BalancesKey == <<"hydra", "balances">>

PaymentsKey == <<"hydra", "payments">>

\* C9: a "channel updated" event invalidates the channel list and the
\* balances at once, and leaves two further invalidations of each scheduled,
\* 2 and 5 seconds later.
C9_ChannelUpdateInvalidatesThrice ==
  [][\A s \in Streams :
       (/\ kind = "node"
        /\ Mounted(s)
        /\ OnEventIn(s)
        /\ "channelUpdate" \in EventIn(s)) =>
         /\ {ChannelsKey, BalancesKey} \subseteq Range(invalidated')
         /\ \A k \in {ChannelsKey, BalancesKey}, d \in {2, 5} :
              InvalidateTimer(k, d) \in Range(timers')]_vars

\* a "channel updated" event has been handled
C9_Witness ==
  /\ kind = "node"
  /\ lastEvent = << {"channelUpdate"} >>
  /\ Range(invalidated) = {ChannelsKey, BalancesKey}

\* the keys the variants of an event stand for
KeysOfVariants(ev) ==
  (IF ev \cap {"channelUpdate", "channelClosed", "assetChannelUpdate"} # {}
     THEN {ChannelsKey, BalancesKey} ELSE {}) \cup
  (IF "paymentUpdate" \in ev THEN {PaymentsKey, BalancesKey} ELSE {})

\* C10: handleNodeEvent invalidates exactly the keys of the event's variants:
\* the channel list and the balances for channelUpdate, channelClosed and
\* assetChannelUpdate, the payments and the balances for paymentUpdate,
\* nothing for an event with none of them; and an event changes no timer.
C10_VariantKeysExact ==
  [][\A s \in Streams :
       (kind = "node" /\ Mounted(s) /\ OnEventIn(s)) =>
         /\ Range(invalidated') = KeysOfVariants(EventIn(s))
         /\ (KeysOfVariants(EventIn(s)) = {} => stale' = stale)
         /\ timers' = timers]_vars

\* a payment event has been handled
C10_Witness ==
  /\ kind = "node"
  /\ lastEvent = << {"paymentUpdate"} >>
  /\ Range(invalidated) = {PaymentsKey, BalancesKey}

(***************************************************************************)
(* Claims about grpcCall on any descriptor, checked under ExecSpec.        *)
(***************************************************************************)
Executed == lastCall.phase = "settled" /\ lastCall.called /\ lastCall.resp.net = "ok"

\* C14: a response whose grpc-status header is present and not zero makes
\* grpcCall throw, for every descriptor, an error that carries the status
\* code and the grpc-message; it returns no value.
C14_NonZeroStatusFails ==
  (Executed /\ lastCall.resp.status \notin {"null", "0"}) =>
    /\ lastCall.exch.kind = "err"
    /\ lastCall.exch.value = NoValue
    /\ lastCall.exch.status = lastCall.resp.status
    /\ lastCall.exch.message = lastCall.resp.message

\* a read answered with status 2 and a message
C14_Witness ==
  /\ Executed
  /\ lastCall.d = Desc(WalletService, "GetBalances")
  /\ lastCall.resp.status = "2"
  /\ lastCall.resp.message = "boom"
  /\ lastCall.resp.http = 200
  /\ lastCall.exch.kind = "err"

C16_EveryDescriptorDecoded ==
  (/\ Executed
   /\ lastCall.resp.status = "0"
   /\ DeframeAndDecode(lastCall.resp.body).ok) =>
     /\ lastCall.exch.kind = "ok"
     /\ lastCall.exch.value = Decoded(DeframeAndDecode(lastCall.resp.body).fields)

\* OpenChannel answered with status zero and an encoded response
C16_Witness ==
  /\ Executed
  /\ lastCall.d = Desc(NodeService, "OpenChannel")
  /\ lastCall.resp.status = "0"
  /\ lastCall.resp.body = Frame(<<TAG1, 0>>)

(***************************************************************************)
(* Claims about the framing, checked under FrameSpec.                      *)
(***************************************************************************)
\* C19: deframing the frame built from a payload gives back the payload.
C19_FrameRoundTrip ==
  (codec.phase = "deframed" /\ ~codec.cut) =>
    codec.view = [ok |-> TRUE, bytes |-> codec.payload]

\* a payload of two bytes has gone through framing and deframing
C19_Witness ==
  /\ codec.phase = "deframed"
  /\ ~codec.cut
  /\ codec.payload = <<TAG1, 0>>
  /\ codec.view.bytes = <<TAG1, 0>>

(***************************************************************************)
(* Claims about short buffers on a stream, checked under Spec.             *)
(***************************************************************************)
\* C20: a buffer shorter than the 5-byte frame header makes the deframing
\* step raise: the chunk yields no event, decoded or truncated.
C20_ShortBufferRaises ==
  [][\A s \in Streams :
       (/\ streams[s].phase = "value"
        /\ Len(streams[s].value) < HeaderLen
        /\ streams'[s].phase # "value") =>
          /\ streams'[s].onEvent = streams[s].onEvent
          /\ streams'[s].raised = streams[s].raised + 1]_vars

\* a read has resolved with a chunk of two bytes
C20_Witness ==
  \E s \in Streams : streams[s].phase = "value" /\ Len(streams[s].value) = 2

(***************************************************************************)
(* Claims about the fan-out reads, checked under FanSpec.                  *)
(***************************************************************************)
FanSettled == fan.phase = "settled"

Positions == 1..Len(fan.networks)

\* the answer of the backend to the call for the network at position j
AnswerAt(j) == fan.resps[fan.networks[j]]

\* the call for the network at position j raises
Raises(j) == grpcCall(FanDesc(fan.op), AnswerAt(j)).kind = "err"

\* the result of the call for the network at position j, which does not raise
ResultAt(j) ==
  ItemsOf(fan.op, grpcCall(FanDesc(fan.op), AnswerAt(j)), AnswerAt(j).body,
          fan.networks[j])

\* acc with the results of the calls that do not raise merged into it, from
\* position j on, in the order of the networks
RECURSIVE Successful(_, _)
Successful(j, acc) ==
  IF j > Len(fan.networks) THEN acc
  ELSE Successful(j + 1, IF Raises(j) THEN acc
                         ELSE Merge(fan.op, acc, ResultAt(j)))

\* the aggregate has every entry of the result of the network at position j
Contains(j) ==
  \A e \in Range(ResultAt(j)) :
    \E a \in Range(fan.agg) :
      a.data = e.data /\ (fan.op # "getBalances" => a = e)

\* C11: when the call for exactly one of the networks raises, at whatever
\* position, the calls for the other networks are made, the read does not
\* raise and its aggregate holds the results of the other networks.
C11_FanOutIsolation ==
  (/\ FanSettled
   /\ Len(fan.networks) >= 2
   /\ Cardinality({j \in Positions : Raises(j)}) = 1) =>
     /\ fan.result = "returned"
     /\ \A j \in Positions : fan.sends[j] = 1
     /\ fan.agg = Successful(1, <<>>)
     /\ \A j \in Positions : ~Raises(j) => Contains(j)

\* of three networks the second raised; the balances have the other two
C11_Witness ==
  /\ FanSettled
  /\ fan.op = "getBalances"
  /\ Len(fan.networks) = 3
  /\ ~Raises(1) /\ Raises(2) /\ ~Raises(3)
  /\ Len(fan.agg) = 2
  /\ fan.result = "returned"

\* C12: when no network succeeds, because every call raises or because no
\* network list is obtained, the read returns its empty aggregate and does
\* not raise.
C12_ZeroSuccessEmptyAggregate ==
  (FanSettled /\ \A j \in Positions : Raises(j)) =>
    /\ fan.result = "returned"
    /\ fan.agg = <<>>

\* getBalances with GetNetworks unanswered
C12_Witness ==
  /\ FanSettled
  /\ fan.op = "getBalances"
  /\ fan.netResp = FetchFailed
  /\ fan.configured # <<>>
  /\ fan.result = "returned"

\* C13: the executor is invoked once per network and concurrently: while the
\* read awaits a call, the call for every network has been made, and none
\* waits for another to settle.
C13_CallsConcurrent ==
  /\ fan.phase = "awaiting" => \A j \in Positions : fan.sends[j] = 1
  /\ (FanSettled /\ fan.result = "returned") =>
       \A j \in Positions : fan.sends[j] = 1

\* the read awaits the call for the second of several networks
C13_Witness ==
  fan.phase = "awaiting" /\ Len(fan.networks) >= 2 /\ fan.i = 2

\* an answer with HTTP 200, no status and no asset pattern in its body
NoStatusNoAsset(r) ==
  r.net = "ok" /\ r.http = 200 /\ r.status = "null" /\ ~HasAsset(r.body)

\* the body of an answer decodes as a message
Decodes(r) == DeframeAndDecode(r.body).ok

\* C17 as amended: getBalances does not raise, and a network answering with
\* HTTP 200, no status and no asset pattern adds nothing to the balances,
\* with or without the success marker in its body, unless the bytes after
\* the frame header decode as a message: then its entries are the balances.
C17_NoAssetPatternEmptyUnlessDecoded ==
  (FanSettled /\ fan.op = "getBalances") =>
    /\ fan.result = "returned"
    /\ \A j \in Positions :
         (NoStatusNoAsset(AnswerAt(j)) /\ ~Decodes(AnswerAt(j))) =>
           \A k \in 1..Len(fan.agg) : fan.agg[k].net # fan.networks[j]
    /\ \A j \in Positions :
         (NoStatusNoAsset(AnswerAt(j)) /\ Decodes(AnswerAt(j))) => Contains(j)
    /\ (\A j \in Positions :
          NoStatusNoAsset(AnswerAt(j)) /\ ~Decodes(AnswerAt(j))) =>
            fan.agg = <<>>

\* C17: getBalances does not raise, and a network answering with HTTP 200, no
\* status and no asset pattern adds nothing to the balances, with or without
\* the success marker in its body.
C17_NoAssetPatternEmptyBalances ==
  (FanSettled /\ fan.op = "getBalances") =>
    /\ fan.result = "returned"
    /\ \A j \in Positions :
         NoStatusNoAsset(AnswerAt(j)) =>
           \A k \in 1..Len(fan.agg) : fan.agg[k].net # fan.networks[j]
    /\ (\A j \in Positions : NoStatusNoAsset(AnswerAt(j))) => fan.agg = <<>>

\* getBalances over one network whose answer has the marker and no asset
C17_Witness ==
  /\ FanSettled
  /\ fan.op = "getBalances"
  /\ Len(fan.networks) = 1
  /\ AnswerAt(1) = Http200("null", Frame(<<BADTAG, MARKER>>))
  /\ fan.agg = <<>>
  /\ fan.result = "returned"

\* C18: when GetNetworks is answered with HTTP 200, status zero and the
\* encoded list of networks, getNetworks returns that list: as many
\* networks, the same ones, in the same order.
C18_NetworksAsEncoded ==
  (/\ fan.phase \in {"awaiting", "settled"}
   /\ fan.netResp = Http200("0", Frame(EncodeNetworks(fan.configured)))) =>
     fan.networks = fan.configured

\* two networks, the second id before the first
C18_Witness ==
  /\ fan.phase = "awaiting"
  /\ fan.netResp.status = "0"
  /\ fan.configured = <<66, 65>>
  /\ fan.networks = <<66, 65>>

(***************************************************************************)
(* Claims about the length field of a frame, checked under FrameSpec.      *)
(***************************************************************************)
\* the length N the header of a buffer of 5 bytes or more declares
DeclaredLength(buf) == buf[HeaderLen]

\* the bytes of a buffer after its header
Available(buf) == Len(buf) - HeaderLen

\* C21: deframing reads at most the N bytes the header declares, and a
\* buffer holding fewer than N bytes after its header is rejected: it gives
\* no view and its bytes are not decoded as a message.
C21_LengthFieldHonoured ==
  (codec.phase = "deframed" /\ Len(codec.buffer) >= HeaderLen) =>
    /\ codec.view.ok => Len(codec.view.bytes) <= DeclaredLength(codec.buffer)
    /\ DeclaredLength(codec.buffer) > Available(codec.buffer) =>
         /\ ~codec.view.ok
         /\ ~DeframeAndDecode(codec.buffer).ok

\* a frame of three bytes arrived cut to two, which decode as a message
C21_Witness ==
  /\ codec.phase = "deframed"
  /\ codec.cut
  /\ codec.payload = <<TAG1, 0, TAG1>>
  /\ codec.buffer = <<0, 0, 0, 0, 3, TAG1, 0>>
  /\ codec.view = [ok |-> TRUE, bytes |-> <<TAG1, 0>>]
  /\ DeframeAndDecode(codec.buffer).ok

NoStatusNoMarkerRaised ==
  /\ Executed
  /\ lastCall.resp.status = "null"
  /\ ~HasMarker(lastCall.resp.body)
  /\ lastCall.exch.kind = "err"

\* C23: when the status is absent, no success marker is found and no decode
\* succeeded, the error grpcCall raises carries the HTTP status and the
\* beginning of the response body.
C23_ErrorCarriesHttpAndBody ==
  NoStatusNoMarkerRaised =>
    /\ lastCall.exch.http = lastCall.resp.http
    /\ IsPrefix(lastCall.exch.body, lastCall.resp.body)
    /\ lastCall.resp.body # <<>> => lastCall.exch.body # <<>>

\* ConnectToPeer answered with HTTP 500, no status and a body of one frame
C23_Witness ==
  /\ NoStatusNoMarkerRaised
  /\ lastCall.d = Desc(NodeService, "ConnectToPeer")
  /\ lastCall.resp.http = 500
  /\ lastCall.resp.body = Frame(<<TAG1, 0>>)
  /\ lastCall.exch.http = 500
  /\ lastCall.exch.body = <<>>

\* C30: when the status is absent and the HTTP status is not 200, grpcCall
\* raises, for every descriptor and every body, and returns no value.
C30_NoStatusNot200Fails ==
  (Executed /\ lastCall.resp.status = "null" /\ lastCall.resp.http # 200) =>
    /\ lastCall.exch.kind = "err"
    /\ lastCall.exch.value = NoValue

\* OpenChannel answered with HTTP 500 and a body that holds a valid message
\* and the success marker
C30_Witness ==
  /\ Executed
  /\ lastCall.d = Desc(NodeService, "OpenChannel")
  /\ lastCall.resp.status = "null"
  /\ lastCall.resp.http = 500
  /\ lastCall.resp.body = Frame(<<0, MARKER>>)
  /\ DeframeAndDecode(lastCall.resp.body).ok
  /\ lastCall.exch.kind = "err"

(***************************************************************************)
(* Claims about the connection-status probe, checked under FanSpec.        *)
(***************************************************************************)
\* an exchange of the read with the backend succeeded: GetNetworks, or the
\* call for one of the networks
SomeExchangeSucceeded ==
  \/ grpcCall(Desc(AppService, "GetNetworks"), fan.netResp).kind = "ok"
  \/ \E j \in Positions : fan.sends[j] = 1 /\ ~Raises(j)

\* C27: the probe yields connected: true only when an exchange with the
\* backend succeeded, and connected: false with a message whenever every
\* exchange failed.
C27_ProbeReflectsBackend ==
  fan.phase = "probed" =>
    /\ fan.probe.connected => SomeExchangeSucceeded
    /\ ~SomeExchangeSucceeded => fan.probe = [connected |-> FALSE, error |-> "message"]

\* the backend is unreachable and the probe has returned
C27_Witness ==
  /\ fan.phase = "probed"
  /\ fan.netResp = FetchFailed
  /\ fan.configured # <<>>
  /\ fan.probe.connected

(***************************************************************************)
(* Claims about the cache after a mutation, checked under CallSpec.        *)
(***************************************************************************)
\* the mutations after which the channel list and the balances are refreshed
ChannelMutations ==
  { Desc(RentalService, "RentChannel"), Desc(NodeService, "DepositChannel"),
    Desc(NodeService, "WithdrawChannel"), Desc(NodeService, "CloseChannel"),
    Desc(NodeService, "ForceCloseChannel") }

\* C28: when a rentChannel mutation succeeds, as when a deposit, withdraw,
\* close or force-close succeeds, its onSuccess marks the cached channel list
\* and the cached balances stale.
C28_RentInvalidatesChannelsAndBalances ==
  [][(/\ lastCall.phase = "idle"
      /\ lastCall.d \in ChannelMutations
      /\ lastCall'.hook = "onSuccess") =>
        (ChannelsKey \in stale' /\ BalancesKey \in stale')]_vars

\* a rentChannel mutation has succeeded and its onSuccess has run
C28_Witness ==
  /\ lastCall.d = Desc(RentalService, "RentChannel")
  /\ lastCall.phase = "settled"
  /\ lastCall.hook = "onSuccess"
  /\ invalidated = << <<"channels">>, <<"balances">> >>
  /\ ChannelsKey \notin stale

(***************************************************************************)
(* Claims about the requests, checked under FrameSpec.                     *)
(***************************************************************************)
\* C24: every request, unary or subscribe, declares the binary content type
\* and the streaming-capability marker header, and its body is one frame:
\* the 5-byte header followed by the encoded request.
C24_RequestIsOneFrame ==
  codec.phase # "message" =>
    /\ codec.request.contentType = "application/grpc-web+proto"
    /\ codec.request.xGrpcWeb
    /\ codec.request.body = Frame(codec.payload)

\* a subscribe request of two bytes has been sent
C24_Witness ==
  /\ codec.phase = "subscribed"
  /\ codec.payload = <<TAG1, 0>>
  /\ codec.request.kind = "subscribe"
  /\ codec.request.body = <<TAG1, 0>>

(***************************************************************************)
(* Claims about reconnection, checked under FairSpec and RetrySpec.        *)
(***************************************************************************)
\* the server ended stream s without error and processStream left its loop
ServerEnded(s) ==
  s <= Len(streams) /\ streams[s].phase = "ended" /\ ~streams[s].readErr
    /\ streams[s].isActive

\* C25: the only exits from Streaming are an error, followed by a reconnect,
\* and cancellation: a subscription that is not cancelled and whose stream
\* the server ended without error is eventually connecting again.
C25_EndedStreamReconnects ==
  \A s \in 1..(MaxEffects + MaxFailures) :
    [](ServerEnded(s) => <>(Reattempted(s) \/ Cancelled(s)))

\* the server has ended the stream of a mounted node-event subscription that
\* was never cancelled; no connection attempt follows it
C25_Witness ==
  /\ kind = "node"
  /\ \E s \in Streams :
       ServerEnded(s) /\ ~Cancelled(s) /\ ~Reattempted(s) /\ timers = <<>>

\* the reconnect timers pending for effect e
PendingReconnects(e) ==
  Cardinality({i \in 1..Len(timers) :
                 timers[i].what = "reconnect" /\ timers[i].eff = e})

\* the connection attempts in flight for effect e
AttemptsInFlight(e) ==
  Cardinality({s \in Streams :
                 streams[s].eff = e /\ streams[s].phase = "fetching"})

\* onError of stream s is invoked in this step
OnErrorIn(s) == streams'[s].onError = streams[s].onError + 1

\* C26: a failed connection attempt or a stream error of a node-event
\* subscription in place arms exactly one reconnect timer, and for one
\* subscription the pending reconnect timers and the connection attempts in
\* flight are never more than one together, however many failures there are
\* in a row.
C26_OneReconnectPerFailure ==
  [][/\ \A s \in Streams :
          (OnErrorIn(s) /\ Mounted(s) /\ kind = "node") =>
            /\ Len(timers') = Len(timers) + 1
            /\ PendingReconnects(streams[s].eff)' = 1
            /\ AttemptsInFlight(streams[s].eff)' = 0
     /\ \A e \in 1..Len(effects') :
          PendingReconnects(e)' + AttemptsInFlight(e)' <= 1]_vars

\* the third connection attempt in a row of one subscription has failed
C26_Witness ==
  /\ kind = "node"
  /\ Len(streams) = 3
  /\ \A s \in Streams : streams[s].phase = "failed" /\ streams[s].eff = 1
  /\ PendingReconnects(1) = 1

(***************************************************************************)
(* Claims about the handlers after the cleanup, checked under Spec.        *)
(***************************************************************************)
\* the reconnect timer i of a cleaned-up effect runs in this step
StaleTimerFires(i) ==
  /\ timers[i].what = "reconnect"
  /\ IsNext(i)
  /\ timers' = AfterFiring(i)
  /\ ~effects[timers[i].eff].mounted

\* C29: once the cleanup of an effect of useNodeEventStream has run, an event
\* delivered or an error raised on a stream of that effect invalidates no
\* query and updates no state, and a reconnect timer of that effect opens no
\* connection when it runs.
C29_NoEffectAfterCleanup ==
  [][kind = "node" =>
       /\ \A s \in Streams :
            (~Mounted(s) /\ (OnEventIn(s) \/ OnErrorIn(s))) =>
              /\ stale' = stale
              /\ lastEvent' = lastEvent
              /\ isConnected' = isConnected
              /\ unsubState' = unsubState
              /\ timers' = timers
       /\ \A i \in 1..Len(timers) : StaleTimerFires(i) => streams' = streams]_vars

\* the connection attempt of a cleaned-up effect is in flight while the
\* effect in place is connected
C29_Witness ==
  /\ kind = "node"
  /\ alive
  /\ isConnected
  /\ \E s \in Streams : ~Mounted(s) /\ streams[s].phase = "fetching"

====
